---- MODULE Spec2Model ----
(***************************************************************************)
(* A model of lggomez/httpcache: the private HTTP response cache that sits *)
(* between a caller and a transport.  executeRequest, the cache-control    *)
(* helpers it calls, the in-memory backend and the cachingReadCloser body  *)
(* wrapper are modelled from the Go source.                                *)
(*                                                                         *)
(* Encoding of Go values:                                                  *)
(*  - an http.Header is a function from the canonical names of the headers *)
(*    that are present to their (first) value;                             *)
(*  - the text of Cache-Control is kept as the sequence of its comma       *)
(*    separated tokens, each token as the sequence of its "=" separated    *)
(*    pieces (what strings.Split yields), blanks around a token removed;   *)
(*  - the text of Vary and of Connection is kept as the sequence of its    *)
(*    comma separated tokens, blanks included;                             *)
(*  - a time is a number of seconds, formatted as FormatTime(t); a         *)
(*    time.Duration is a number of seconds;                                *)
(*  - a body is the sequence of its bytes.                                 *)
(***************************************************************************)
EXTENDS Integers, Sequences, FiniteSets, TLC

VARIABLES items, now, Options, call, bodies, mu, goroutines, history, eval

vars == <<items, now, Options, call, bodies, mu, goroutines, history, eval>>

(***************************************************************************)
(* Bounds of the model.                                                    *)
(***************************************************************************)
\* the clock runs from 0 to MaxTime seconds
MaxTime == 2
\* the largest number of seconds a duration text of the model denotes
MaxSeconds == 4
\* how many times the stream of one body reports its end to a reader
MaxEOF == 2
\* how many response bodies callers hold open at the same time
MaxOpen == 1
\* how many goroutines call the MemoryCache at the same time
NumGoroutines == 2
\* the largest number of comma separated tokens of a Cache-Control text
MaxTokens == 2
\* how many exchanges on one key have their bodies open at the same time
MaxRace == 2

(***************************************************************************)
(* Strings of the Go standard library, on the texts the model uses.        *)
(***************************************************************************)
\* strings.Trim(s, " ") / strings.TrimSpace(s)
TrimSpace(s) ==
  CASE s = " X-Foo" -> "X-Foo"
    [] s = " x-foo" -> "x-foo"
    [] s = " Accept-Language" -> "Accept-Language"
    [] s = " " -> ""
    [] OTHER -> s

\* http.CanonicalHeaderKey: a text holding a blank (or any byte that is not a
\* header token byte) is returned as it is; otherwise the first letter and
\* every letter after a dash become upper case, the others lower case.
CanonicalHeaderKey(s) ==
  CASE s = "vary" -> "Vary"
    [] s = "close" -> "Close"
    [] s = "x-foo" -> "X-Foo"
    [] s = "keep-alive" -> "Keep-Alive"
    [] s = "accept-language" -> "Accept-Language"
    [] s = "accept" -> "Accept"
    [] OTHER -> s

\* time.Time.Format(time.RFC1123) of the instant t
FormatTime(t) == "t" \o ToString(t)

\* time.Parse(time.RFC1123, s)
ParseTime(s) ==
  IF \E t \in 0..MaxTime : FormatTime(t) = s
    THEN [err |-> FALSE, t |-> CHOOSE t \in 0..MaxTime : FormatTime(t) = s]
    ELSE [err |-> TRUE, t |-> 0]

\* time.ParseDuration(s + "s") for the text s of a directive's value
ParseDuration(s) ==
  IF \E n \in 0..MaxSeconds : ToString(n) = s
    THEN [err |-> FALSE, d |-> CHOOSE n \in 0..MaxSeconds : ToString(n) = s]
    ELSE [err |-> TRUE, d |-> 0]

\* clock.since(d)
since(d) == now - d

(***************************************************************************)
(* http.Header                                                             *)
(***************************************************************************)
NoHeader == <<>>

\* Header.Get(name) of a header whose value is a plain text
HeaderGet(h, name) == IF name \in DOMAIN h THEN h[name] ELSE ""

\* Header.Set(name, value)
HeaderSet(h, name, value) ==
  [k \in (DOMAIN h) \cup {name} |-> IF k = name THEN value ELSE h[k]]

\* strings.Split(h.Get(name), ","): the empty text splits into one empty token
CommaTokens(h, name, empty) == IF name \in DOMAIN h THEN h[name] ELSE <<empty>>

(***************************************************************************)
(* header.go                                                               *)
(***************************************************************************)
headerAllCommaSepValues(headers, name) ==
  IF CanonicalHeaderKey(name) \in DOMAIN headers
    THEN [i \in 1..Len(headers[CanonicalHeaderKey(name)]) |->
            TrimSpace(headers[CanonicalHeaderKey(name)][i])]
    ELSE <<>>

Date(respHeaders) ==
  IF HeaderGet(respHeaders, "Date") = ""
    THEN [err |-> TRUE, t |-> 0]
    ELSE ParseTime(HeaderGet(respHeaders, "Date"))

hopByHopHeaders ==
  {"Connection", "Keep-Alive", "Proxy-Authenticate", "Proxy-Authorization",
   "Te", "Trailers", "Transfer-Encoding", "Upgrade"}

getEndToEndHeaders(respHeaders) ==
  LET extras == CommaTokens(respHeaders, "Connection", "")
      listed == {CanonicalHeaderKey(extras[i]) :
                   i \in {j \in 1..Len(extras) : TrimSpace(extras[j]) # ""}}
  IN  {respHeader \in DOMAIN respHeaders :
         respHeader \notin (hopByHopHeaders \cup listed)}

(***************************************************************************)
(* memcache.go: the cache-control helpers                                  *)
(***************************************************************************)
parseCacheControl(headers) ==
  LET parts == CommaTokens(headers, "Cache-Control", <<"">>)
      kept == {i \in 1..Len(parts) : parts[i] # <<"">>}
      names == {parts[i][1] : i \in kept}
      lastOf(n) == CHOOSE i \in kept :
                     /\ parts[i][1] = n
                     /\ \A j \in kept : parts[j][1] = n => j <= i
  IN  [n \in names |->
         IF Len(parts[lastOf(n)]) > 1 THEN parts[lastOf(n)][2] ELSE ""]

\* canStore looking at the response only
canStoreResponseOnly(reqCacheControl, respCacheControl) ==
  "no-store" \notin DOMAIN respCacheControl

canStore(reqCacheControl, respCacheControl) ==
  IF "no-store" \in DOMAIN respCacheControl THEN FALSE
  ELSE IF "no-store" \in DOMAIN reqCacheControl THEN FALSE
  ELSE TRUE

\* staleIfErrorBlock taking a stale-if-error without value for an absent one
staleIfErrorBlockValueOnly(cacheControl, before) ==
  IF before.done THEN before
  ELSE IF "stale-if-error" \in DOMAIN cacheControl /\ cacheControl["stale-if-error"] # ""
    THEN IF ParseDuration(cacheControl["stale-if-error"]).err
           THEN [done |-> TRUE, result |-> FALSE, lifetime |-> before.lifetime]
           ELSE [done |-> FALSE, result |-> FALSE,
                 lifetime |-> ParseDuration(cacheControl["stale-if-error"]).d]
    ELSE before

\* lifetime is -1 until a stale-if-error value sets it; the result of the two
\* directive blocks is either a decision (done) or the lifetime to compare
staleIfErrorBlock(cacheControl, before) ==
  IF before.done THEN before
  ELSE IF "stale-if-error" \in DOMAIN cacheControl
    THEN IF cacheControl["stale-if-error"] # ""
           THEN IF ParseDuration(cacheControl["stale-if-error"]).err
                  THEN [done |-> TRUE, result |-> FALSE, lifetime |-> before.lifetime]
                  ELSE [done |-> FALSE, result |-> FALSE,
                        lifetime |-> ParseDuration(cacheControl["stale-if-error"]).d]
           ELSE [done |-> TRUE, result |-> TRUE, lifetime |-> before.lifetime]
    ELSE before

\* canStaleOnError without the time window: any stale-if-error is eligible
canStaleOnErrorAnyAge(respHeaders, reqHeaders) ==
  \/ "stale-if-error" \in DOMAIN parseCacheControl(respHeaders)
  \/ "stale-if-error" \in DOMAIN parseCacheControl(reqHeaders)

canStaleOnError(respHeaders, reqHeaders) ==
  LET respCacheControl == parseCacheControl(respHeaders)
      reqCacheControl == parseCacheControl(reqHeaders)
      start == [done |-> FALSE, result |-> FALSE, lifetime |-> -1]
      afterResp == staleIfErrorBlock(respCacheControl, start)
      afterReq == staleIfErrorBlock(reqCacheControl, afterResp)
  IN  IF afterReq.done THEN afterReq.result
      ELSE IF afterReq.lifetime >= 0
        THEN IF Date(respHeaders).err THEN FALSE
             ELSE afterReq.lifetime > since(Date(respHeaders).t)
        ELSE FALSE

\* responseLifetime with the max-age branch lost: only Expires grants a lifetime
responseLifetimeExpiresOnly(respHeaders, respCacheControl, date) ==
  IF HeaderGet(respHeaders, "Expires") # ""
    THEN IF ParseTime(HeaderGet(respHeaders, "Expires")).err THEN 0
         ELSE ParseTime(HeaderGet(respHeaders, "Expires")).t - date
    ELSE 0

\* responseLifetime with the precedence reversed: Expires overrides max-age
responseLifetimeExpiresFirst(respHeaders, respCacheControl, date) ==
  IF HeaderGet(respHeaders, "Expires") # ""
    THEN IF ParseTime(HeaderGet(respHeaders, "Expires")).err THEN 0
         ELSE ParseTime(HeaderGet(respHeaders, "Expires")).t - date
    ELSE IF "max-age" \in DOMAIN respCacheControl
      THEN IF ParseDuration(respCacheControl["max-age"]).err THEN 0
           ELSE ParseDuration(respCacheControl["max-age"]).d
      ELSE 0

\* lines 176-196 of getFreshness: the lifetime the response grants; max-age
\* overrides Expires, a malformed value counts as zero
responseLifetime(respHeaders, respCacheControl, date) ==
  IF "max-age" \in DOMAIN respCacheControl
    THEN IF ParseDuration(respCacheControl["max-age"]).err THEN 0
         ELSE ParseDuration(respCacheControl["max-age"]).d
    ELSE IF HeaderGet(respHeaders, "Expires") # ""
      THEN IF ParseTime(HeaderGet(respHeaders, "Expires")).err THEN 0
           ELSE ParseTime(HeaderGet(respHeaders, "Expires")).t - date
      ELSE 0

getFreshness(req, respHeaders) ==
  LET reqHeaders == req.Header
      respCacheControl == parseCacheControl(respHeaders)
      reqCacheControl == parseCacheControl(reqHeaders)
      date == Date(respHeaders)
      age0 == since(date.t)
      lifetime ==
        IF "max-age" \in DOMAIN reqCacheControl
          THEN IF ParseDuration(reqCacheControl["max-age"]).err THEN 0
               ELSE ParseDuration(reqCacheControl["max-age"]).d
          ELSE responseLifetime(respHeaders, respCacheControl, date.t)
      age1 ==
        IF /\ "min-fresh" \in DOMAIN reqCacheControl
           /\ ~ParseDuration(reqCacheControl["min-fresh"]).err
          THEN age0 + ParseDuration(reqCacheControl["min-fresh"]).d
          ELSE age0
      currentAge ==
        IF /\ "max-stale" \in DOMAIN reqCacheControl
           /\ ~ParseDuration(reqCacheControl["max-stale"]).err
          THEN age1 - ParseDuration(reqCacheControl["max-stale"]).d
          ELSE age1
  IN  IF "no-cache" \in DOMAIN reqCacheControl THEN "transparent"
      ELSE IF "no-cache" \in DOMAIN respCacheControl THEN "stale"
      ELSE IF "only-if-cached" \in DOMAIN reqCacheControl THEN "fresh"
      ELSE IF date.err THEN "stale"
      ELSE IF /\ "max-stale" \in DOMAIN reqCacheControl
              /\ reqCacheControl["max-stale"] = "" THEN "fresh"
      ELSE IF lifetime > currentAge THEN "fresh"
      ELSE "stale"

(***************************************************************************)
(* Requests, responses and their serialized form                           *)
(***************************************************************************)
Request(method, header) == [Method |-> method, URL |-> "/a", Header |-> header]

Response(status, header, body) ==
  [StatusCode |-> status, Header |-> header, Body |-> body]

\* a nil *http.Response
NoResponse == Response(0, NoHeader, <<>>)

\* bytes in storage that are no HTTP response
Garbage == [wire |-> "garbage"]

\* httputil.DumpResponse(resp, true): status line, headers and body on the wire
DumpResponse(resp) ==
  [wire |-> "response", StatusCode |-> resp.StatusCode,
   Header |-> resp.Header, Body |-> resp.Body]

\* http.ReadResponse(bytes, req): the reply to a HEAD request has no body
ReadResponse(bytes, req) ==
  IF bytes.wire = "response"
    THEN [err |-> FALSE,
          resp |-> Response(bytes.StatusCode, bytes.Header,
                            IF req.Method = "HEAD" THEN <<>> ELSE bytes.Body)]
    ELSE [err |-> TRUE, resp |-> NoResponse]

(***************************************************************************)
(* memcache.go: MemoryCache (each method runs under the mutex)             *)
(***************************************************************************)
Get(mc, key) ==
  IF key \in DOMAIN mc THEN [ok |-> TRUE, resp |-> mc[key]]
  ELSE [ok |-> FALSE, resp |-> Garbage]

Set(mc, key, resp) ==
  [k \in (DOMAIN mc) \cup {key} |-> IF k = key THEN resp ELSE mc[k]]

Delete(mc, key) == [k \in (DOMAIN mc) \ {key} |-> mc[k]]

NewMemoryCache == <<>>

(***************************************************************************)
(* The cached client                                                       *)
(***************************************************************************)
XFromCache == "X-From-Cache"

cacheKey(req) ==
  IF req.Method = "GET" THEN req.URL ELSE req.Method \o " " \o req.URL

\* (resp, err): nil, nil when the key is absent
CachedResponse(c, req) ==
  IF ~Get(c, cacheKey(req)).ok
    THEN [isNil |-> TRUE, err |-> FALSE, resp |-> NoResponse]
    ELSE [isNil |-> ReadResponse(Get(c, cacheKey(req)).resp, req).err,
          err |-> ReadResponse(Get(c, cacheKey(req)).resp, req).err,
          resp |-> ReadResponse(Get(c, cacheKey(req)).resp, req).resp]

varyMatches(cachedResp, req) ==
  \A i \in 1..Len(headerAllCommaSepValues(cachedResp.Header, "vary")) :
    LET header == CanonicalHeaderKey(headerAllCommaSepValues(cachedResp.Header, "vary")[i])
    IN  ~(/\ header # ""
          /\ HeaderGet(req.Header, header) # HeaderGet(cachedResp.Header, "X-Varied-" \o header))

newGatewayTimeoutResponse == Response(504, NoHeader, <<>>)

\* lines 156-176: the request sent to revalidate a stale entry, a clone of req
\* when a validator is added
addValidators(req, cachedResp) ==
  LET etag == HeaderGet(cachedResp.Header, "Etag")
      lastModified == HeaderGet(cachedResp.Header, "Last-Modified")
      h1 == IF etag # "" /\ HeaderGet(req.Header, "Etag") = ""
              THEN HeaderSet(req.Header, "If-None-Match", etag)
              ELSE req.Header
      h2 == IF lastModified # "" /\ HeaderGet(req.Header, "Last-Modified") = ""
              THEN HeaderSet(h1, "If-Modified-Since", lastModified)
              ELSE h1
  IN  [req EXCEPT !.Header = h2]

\* lines 184-187: the cached headers with the end-to-end headers of the 304
mergeNotModified(cachedResp, resp) ==
  [cachedResp EXCEPT !.Header =
     [k \in (DOMAIN cachedResp.Header) \cup getEndToEndHeaders(resp.Header) |->
        IF k \in getEndToEndHeaders(resp.Header) THEN resp.Header[k]
        ELSE cachedResp.Header[k]]]

\* lines 229-236: the X-Varied-<Header> echo of every header the response varies on
RECURSIVE setVaried(_, _, _, _)
setVaried(header, reqHeader, varyKeys, i) ==
  IF i > Len(varyKeys) THEN header
  ELSE LET varyKey == CanonicalHeaderKey(varyKeys[i])
           reqValue == HeaderGet(reqHeader, varyKey)
       IN  setVaried(IF reqValue # ""
                       THEN HeaderSet(header, "X-Varied-" \o varyKey, reqValue)
                       ELSE header,
                     reqHeader, varyKeys, i + 1)

\* lines 227-264: store or evict, and the response handed to the caller
storeOrEvict(mc, cacheable, req, resp, found, sent, rt, returned) ==
  LET key == cacheKey(req)
      gate == cacheable /\ canStore(parseCacheControl(req.Header),
                                    parseCacheControl(resp.Header))
      out == [resp EXCEPT !.Header =
                setVaried(resp.Header, req.Header,
                          headerAllCommaSepValues(resp.Header, "vary"), 1)]
  IN  [items |-> IF ~gate THEN Delete(mc, key)
                 ELSE IF req.Method = "GET" THEN mc
                 ELSE Set(mc, key, DumpResponse(out)),
       found |-> found, called |-> sent.called, sent |-> sent.req, rt |-> rt,
       returned |-> returned, err |-> FALSE,
       resp |-> IF gate THEN out ELSE resp,
       wrapped |-> gate /\ req.Method = "GET",
       set |-> gate /\ req.Method # "GET"]

\* an early return of executeRequest
return(mc, found, sent, rt, returned, resp, err) ==
  [items |-> mc, found |-> found, called |-> sent.called, sent |-> sent.req,
   rt |-> rt, returned |-> returned, err |-> err, resp |-> resp, wrapped |-> FALSE,
   set |-> FALSE]

NoRequest == Request("", NoHeader)
NotSent == [called |-> FALSE, req |-> NoRequest]
Sent(req) == [called |-> TRUE, req |-> req]
NoOutcome == [err |-> FALSE, resp |-> NoResponse]

\* staleFallback without the 5xx replies: only a failed round trip falls back
staleFallbackOnErrorOnly(rt, req, cachedResp) ==
  /\ rt.err
  /\ req.Method = "GET"
  /\ canStaleOnError(cachedResp.Header, req.Header)

\* lines 191-192: the round trip failed or answered 5xx, the request is a GET
\* and stale-if-error allows the cached entry
staleFallback(rt, req, cachedResp) ==
  /\ rt.err \/ rt.resp.StatusCode >= 500
  /\ req.Method = "GET"
  /\ canStaleOnError(cachedResp.Header, req.Header)

\* executeRequest(cc, req, resp) when the transport answers rt to the round trip
executeRequest(req, rt) ==
  LET key == cacheKey(req)
      cacheable == req.Method \in {"GET", "HEAD"} /\ HeaderGet(req.Header, "Range") = ""
      found == IF cacheable THEN CachedResponse(items, req)
               ELSE [isNil |-> TRUE, err |-> FALSE, resp |-> NoResponse]
      mc1 == IF cacheable THEN items ELSE Delete(items, key)
      cachedResp == IF Options.MarkCachedResponses
                      THEN [found.resp EXCEPT !.Header = HeaderSet(@, XFromCache, "1")]
                      ELSE found.resp
      vary == varyMatches(cachedResp, req)
      freshness == IF vary THEN getFreshness(req, cachedResp.Header) ELSE "none"
      req2 == IF freshness = "stale" THEN addValidators(req, cachedResp) ELSE req
  IN  IF cacheable /\ ~found.isNil /\ ~found.err
        THEN IF freshness = "fresh"
               THEN return(mc1, found, NotSent, NoOutcome, "cachedResp", cachedResp, FALSE)
             ELSE IF ~rt.err /\ req2.Method = "GET" /\ rt.resp.StatusCode = 304
               THEN storeOrEvict(mc1, cacheable, req2, mergeNotModified(cachedResp, rt.resp),
                                 found, Sent(req2), rt, "cachedResp")
             ELSE IF staleFallback(rt, req2, cachedResp)
               THEN return(mc1, found, Sent(req2), rt, "cachedResp", cachedResp, FALSE)
             ELSE IF rt.err
               THEN return(Delete(mc1, key), found, Sent(req2), rt, "nil", NoResponse, TRUE)
             ELSE storeOrEvict(IF rt.resp.StatusCode # 200 THEN Delete(mc1, key) ELSE mc1,
                               cacheable, req2, rt.resp, found, Sent(req2), rt, "resp")
        ELSE IF "only-if-cached" \in DOMAIN parseCacheControl(req.Header)
               THEN storeOrEvict(mc1, cacheable, req, newGatewayTimeoutResponse,
                                 found, NotSent, NoOutcome, "timeout")
             ELSE IF rt.err
               THEN return(mc1, found, Sent(req), rt, "nil", NoResponse, TRUE)
             ELSE storeOrEvict(mc1, cacheable, req, rt.resp, found, Sent(req), rt, "resp")

(***************************************************************************)
(* State                                                                   *)
(*   items    MemoryCache.items: key -> stored bytes                       *)
(*   now      the clock, in seconds                                        *)
(*   Options  CachedClient.Options                                         *)
(*   call     the call of executeRequest that is about to return to its    *)
(*            caller: its request, what it found and sent, its result,     *)
(*            whether it installed the deferred store (wrapped) or called  *)
(*            Cache.Set itself (set)                                       *)
(*   bodies   the responses callers hold, their bodies not yet closed: the  *)
(*            request and result of the call, the wrapper (wrapped), the   *)
(*            bytes read (pos), how often the stream reported its end      *)
(*            (eofs) and how often OnEOF ran (onEOF)                       *)
(*   mu          MemoryCache.mu: the goroutine holding the write lock (0   *)
(*               when free) and the goroutines holding a read lock         *)
(*   goroutines  the goroutines calling Get, Set and Delete on the         *)
(*               MemoryCache directly: their call and the line they are at *)
(*   history     for every key, what the call that took the write lock     *)
(*               last stores under it                                      *)
(*   eval        one evaluation of a helper function: its arguments and    *)
(*               its result                                                *)
(***************************************************************************)
NoCall == [active |-> FALSE]

\* sync.RWMutex, unlocked
Unlocked == [w |-> 0, r |-> {}]

\* no helper is being evaluated
NoEval == [fn |-> "none"]

\* the key and the values (two bytes each) the goroutines use
MemKeys == {"/a"}
Bytes == {<<"a", "a">>, <<"b", "b">>}

\* a goroutine that is in no call of the MemoryCache
Idle == [pc |-> "idle", op |-> "none", key |-> "", resp |-> <<>>,
         ret |-> [ok |-> FALSE, resp |-> <<>>]]

Init ==
  /\ items = NewMemoryCache
  /\ now = 0
  /\ Options \in [MarkCachedResponses : BOOLEAN]
  /\ call = NoCall
  /\ bodies = <<>>
  /\ mu = Unlocked
  /\ goroutines = [g \in 1..NumGoroutines |-> Idle]
  /\ history = [key \in MemKeys |-> [last |-> "none", resp |-> <<>>, passed |-> {}]]
  /\ eval = NoEval

\* executeRequest runs on req; rt is what the transport answers if it is asked
Exchange(req, rt) ==
  /\ call = NoCall
  /\ LET r == executeRequest(req, rt)
     IN  /\ items' = r.items
         /\ call' = [active |-> TRUE, req |-> req, found |-> r.found,
                     called |-> r.called, sent |-> r.sent,
                     rt |-> IF r.called THEN rt ELSE NoOutcome,
                     returned |-> r.returned, err |-> r.err, resp |-> r.resp,
                     wrapped |-> r.wrapped, set |-> r.set]
  /\ UNCHANGED <<now, Options, bodies, mu, goroutines, history, eval>>

\* CachedClient.Do, first half: a caller that holds fewer than MaxOpen bodies
\* open sends req
Call(req, rt) ==
  /\ Len(bodies) < MaxOpen
  /\ Exchange(req, rt)

\* CachedClient.Do, first half, while earlier exchanges on the key are not
\* over: fewer than MaxRace of their bodies are still open
CallConcurrent(req, rt) ==
  /\ Len(bodies) < MaxRace
  /\ Exchange(req, rt)

\* CachedClient.Do, second half: the caller receives (resp, err); with a
\* response it holds resp.Body, a cachingReadCloser when the store is deferred
Do ==
  /\ call # NoCall
  /\ bodies' = IF call.err THEN bodies
               ELSE Append(bodies, [req |-> call.req, rt |-> call.rt,
                                    returned |-> call.returned, resp |-> call.resp,
                                    wrapped |-> call.wrapped, pos |-> 0,
                                    eofs |-> 0, onEOF |-> 0])
  /\ call' = NoCall
  /\ UNCHANGED <<items, now, Options, mu, goroutines, history, eval>>

\* the OnEOF closure of lines 242-250: dump the response with the bytes read
OnEOF(mc, b, buf) ==
  Set(mc, cacheKey(b.req), DumpResponse([b.resp EXCEPT !.Body = buf]))

\* onEOFCalls with OnEOF called after every Read
onEOFCallsEveryRead(b, eof) == 1

\* how often cachingReadCloser.Read calls OnEOF for one result of R.Read
onEOFCalls(b, eof) == IF eof THEN 1 ELSE 0

\* Read on the body of held response i: the underlying stream yields n more
\* bytes and reports its end (eof) or not; a cachingReadCloser appends the
\* bytes to buf and calls OnEOF on io.EOF
Read(i, n, eof) ==
  /\ call = NoCall
  /\ i \in 1..Len(bodies)
  /\ n \in 0..(Len(bodies[i].resp.Body) - bodies[i].pos)
  /\ eof => n = Len(bodies[i].resp.Body) - bodies[i].pos
  /\ n > 0 \/ eof
  /\ eof => bodies[i].eofs < MaxEOF
  /\ LET b == bodies[i]
         buf == SubSeq(b.resp.Body, 1, b.pos + n)
         k == IF b.wrapped THEN onEOFCalls(b, eof) ELSE 0
     IN  /\ bodies' = [bodies EXCEPT ![i] =
                         [b EXCEPT !.pos = b.pos + n,
                                   !.eofs = IF eof THEN b.eofs + 1 ELSE b.eofs,
                                   !.onEOF = b.onEOF + k]]
         /\ items' = IF k > 0 THEN OnEOF(items, b, buf) ELSE items
  /\ UNCHANGED <<now, Options, call, mu, goroutines, history, eval>>

\* Close on the body of held response i; the caller drops the response
Close(i) ==
  /\ call = NoCall
  /\ i \in 1..Len(bodies)
  /\ bodies' = [j \in 1..(Len(bodies) - 1) |->
                  IF j < i THEN bodies[j] ELSE bodies[j + 1]]
  /\ UNCHANGED <<items, now, Options, call, mu, goroutines, history, eval>>

\* the clock advances
Tick ==
  /\ call = NoCall
  /\ now < MaxTime
  /\ now' = now + 1
  /\ UNCHANGED <<items, Options, call, bodies, mu, goroutines, history, eval>>

\* MemoryCache.Set by another user of the backend, between two exchanges of
\* this client: bytes that are no response
ForeignSet(key) ==
  /\ call = NoCall
  /\ bodies = <<>>
  /\ items' = Set(items, key, Garbage)
  /\ UNCHANGED <<now, Options, call, bodies, mu, goroutines, history, eval>>

(***************************************************************************)
(* Inputs                                                                  *)
(***************************************************************************)
CC(tokens) == "Cache-Control" :> tokens
Dated == "Date" :> FormatTime(now)


\* the requests and transport answers of Spec
Requests ==
  { Request("GET", NoHeader),
    Request("GET", CC(<< <<"no-store">> >>)),
    Request("GET", "Range" :> "bytes=0-1"),
    Request("GET", "Accept-Language" :> "en"),
    Request("HEAD", NoHeader) }

Answers ==
  { [err |-> TRUE, resp |-> NoResponse],
    [err |-> FALSE, resp |-> Response(200, CC(<< <<"max-age", "2">> >>) @@ Dated, <<"a", "b">>)],
    [err |-> FALSE,
     resp |-> Response(200, CC(<< <<"max-age", "1">> >>) @@ ("Vary" :> <<"Accept-Language">>)
                            @@ Dated, <<"c">>)],
    [err |-> FALSE, resp |-> Response(200, CC(<< <<"no-store">> >>) @@ Dated, <<"d">>)],
    [err |-> FALSE, resp |-> Response(404, Dated, <<"e">>)] }

Next ==
  \/ \E req \in Requests, rt \in Answers : Call(req, rt)
  \/ Do
  \/ \E i \in 1..MaxOpen, n \in 0..2, eof \in BOOLEAN : Read(i, n, eof)
  \/ \E i \in 1..MaxOpen : Close(i)
  \/ Tick
  \/ ForeignSet("/a")

Spec == Init /\ [][Next]_vars

(***************************************************************************)
(* Freshness: entries with max-age, with and without a Vary record         *)
(***************************************************************************)
FreshRequests ==
  { Request("GET", NoHeader),
    Request("GET", "Accept-Language" :> "en") }

FreshAnswers ==
  { [err |-> TRUE, resp |-> NoResponse],
    [err |-> FALSE, resp |-> Response(200, CC(<< <<"max-age", "2">> >>) @@ Dated, <<"a", "b">>)],
    [err |-> FALSE,
     resp |-> Response(200, CC(<< <<"max-age", "1">> >>) @@ ("Vary" :> <<"Accept-Language">>)
                            @@ Dated, <<"c">>)] }

NextFresh ==
  \/ \E req \in FreshRequests, rt \in FreshAnswers : Call(req, rt)
  \/ Do
  \/ \E i \in 1..MaxOpen, n \in 0..2, eof \in BOOLEAN : Read(i, n, eof)
  \/ \E i \in 1..MaxOpen : Close(i)
  \/ Tick
  \/ ForeignSet("/a")

SpecFresh == Init /\ [][NextFresh]_vars

(***************************************************************************)
(* Revalidation: entries with validators, requests that carry validator    *)
(* headers of their own, 304 answers with hop-by-hop headers               *)
(***************************************************************************)
RevalRequests ==
  { Request("GET", NoHeader),
    Request("GET", "Etag" :> "x"),
    Request("GET", "If-None-Match" :> "c") }

RevalAnswers ==
  { [err |-> TRUE, resp |-> NoResponse],
    [err |-> FALSE,
     resp |-> Response(200, ("Etag" :> "v1") @@ ("X-Foo" :> "old") @@ Dated, <<"a", "b">>)],
    [err |-> FALSE,
     resp |-> Response(200, ("Last-Modified" :> "m1") @@ ("Keep-Alive" :> "k0") @@ Dated,
                       <<"c">>)],
    [err |-> FALSE,
     resp |-> Response(304, ("Etag" :> "v2") @@ ("X-Foo" :> "new") @@ ("Keep-Alive" :> "k1")
                            @@ ("Connection" :> <<"close", " X-Foo">>), <<>>)],
    [err |-> FALSE,
     resp |-> Response(304, ("X-Foo" :> "new") @@ ("Connection" :> <<"X-Foo">>) @@ Dated,
                       <<"n">>)] }

NextReval ==
  \/ \E req \in RevalRequests, rt \in RevalAnswers : Call(req, rt)
  \/ Do
  \/ \E i \in 1..MaxOpen, n \in 0..2, eof \in BOOLEAN : Read(i, n, eof)
  \/ \E i \in 1..MaxOpen : Close(i)
  \/ Tick
  \/ ForeignSet("/a")

SpecReval == Init /\ [][NextReval]_vars

(***************************************************************************)
(* Vary and only-if-cached: entries that vary on Accept-Language           *)
(***************************************************************************)
VaryRequests ==
  { Request("GET", "Accept-Language" :> "en"),
    Request("GET", "Accept-Language" :> "fr"),
    Request("GET", ("Accept-Language" :> "fr") @@ CC(<< <<"only-if-cached">> >>)),
    Request("GET", CC(<< <<"only-if-cached">> >>)) }

VaryAnswers ==
  { [err |-> TRUE, resp |-> NoResponse],
    [err |-> FALSE,
     resp |-> Response(200, ("Vary" :> <<"Accept-Language">>) @@ CC(<< <<"max-age", "1">> >>)
                            @@ Dated, <<"a", "b">>)],
    [err |-> FALSE,
     resp |-> Response(200, ("Vary" :> <<"accept-language">>)
                            @@ CC(<< <<"stale-if-error">> >>) @@ Dated, <<"c">>)],
    [err |-> FALSE, resp |-> Response(304, Dated, <<>>)],
    [err |-> FALSE, resp |-> Response(500, NoHeader, <<"e">>)] }

NextVary ==
  \/ \E req \in VaryRequests, rt \in VaryAnswers : Call(req, rt)
  \/ Do
  \/ \E i \in 1..MaxOpen, n \in 0..2, eof \in BOOLEAN : Read(i, n, eof)
  \/ \E i \in 1..MaxOpen : Close(i)
  \/ Tick
  \/ ForeignSet("/a")

SpecVary == Init /\ [][NextVary]_vars

(***************************************************************************)
(* Stale fallback: stale-if-error on the entry, on the request, on both    *)
(***************************************************************************)
StaleRequests ==
  { Request("GET", NoHeader),
    Request("GET", CC(<< <<"stale-if-error">> >>)),
    Request("GET", CC(<< <<"stale-if-error", "1">> >>)) }

StaleAnswers ==
  { [err |-> TRUE, resp |-> NoResponse],
    [err |-> FALSE,
     resp |-> Response(200, CC(<< <<"stale-if-error", "2">> >>) @@ Dated, <<"a", "b">>)],
    [err |-> FALSE, resp |-> Response(503, NoHeader, <<"e">>)] }

NextStale ==
  \/ \E req \in StaleRequests, rt \in StaleAnswers : Call(req, rt)
  \/ Do
  \/ \E i \in 1..MaxOpen, n \in 0..2, eof \in BOOLEAN : Read(i, n, eof)
  \/ \E i \in 1..MaxOpen : Close(i)
  \/ Tick
  \/ ForeignSet("/a")

SpecStale == Init /\ [][NextStale]_vars

(***************************************************************************)
(* Properties                                                              *)
(***************************************************************************)
cacheable(req) ==
  req.Method \in {"GET", "HEAD"} /\ HeaderGet(req.Header, "Range") = ""

\* the returned response is the cached entry as it was read from storage,
\* but for the X-From-Cache marker
IsCachedEntry(c) ==
  /\ c.returned = "cachedResp"
  /\ ~c.err
  /\ c.resp.StatusCode = c.found.resp.StatusCode
  /\ c.resp.Body = c.found.resp.Body
  /\ \A k \in ((DOMAIN c.resp.Header) \cup (DOMAIN c.found.resp.Header)) \ {XFromCache} :
       /\ k \in DOMAIN c.resp.Header
       /\ k \in DOMAIN c.found.resp.Header
       /\ c.resp.Header[k] = c.found.resp.Header[k]

\* the call about to return is a cacheable GET without cache directives that
\* found an entry with a parseable Date, max-age=N as its only directive and a
\* matching Vary record, aged less than N seconds
C1_Case ==
  /\ call.active
  /\ call.req.Method = "GET"
  /\ cacheable(call.req)
  /\ DOMAIN parseCacheControl(call.req.Header) = {}
  /\ ~call.found.isNil
  /\ ~call.found.err
  /\ ~Date(call.found.resp.Header).err
  /\ DOMAIN parseCacheControl(call.found.resp.Header) = {"max-age"}
  /\ ~ParseDuration(parseCacheControl(call.found.resp.Header)["max-age"]).err
  /\ varyMatches(call.found.resp, call.req)
  /\ now - Date(call.found.resp.Header).t
       < ParseDuration(parseCacheControl(call.found.resp.Header)["max-age"]).d

\* C1: a cacheable GET without cache directives that finds an entry with a
\* parseable Date, only max-age=N and a matching Vary record, less than N
\* seconds old, returns that entry and makes no transport call.
C1_FreshHitServedFromCache ==
  C1_Case => IsCachedEntry(call) /\ ~call.called

\* the case of C1 at an age of at least one second
C1_Witness ==
  /\ C1_Case
  /\ now - Date(call.found.resp.Header).t >= 1
  /\ call.returned = "cachedResp"

\* C2: once a cacheable exchange whose request or returned response carries
\* no-store has completed (returned, body drained), storage holds no entry
\* under the request's key.
C2_NoStoreLeavesNoEntry ==
  \A i \in 1..Len(bodies) :
    (/\ cacheable(bodies[i].req)
     /\ \/ "no-store" \in DOMAIN parseCacheControl(bodies[i].req.Header)
        \/ "no-store" \in DOMAIN parseCacheControl(bodies[i].resp.Header)
     /\ bodies[i].eofs > 0)
    => cacheKey(bodies[i].req) \notin DOMAIN items

\* C8: once a cacheable exchange that returned the transport's non-200
\* response has completed (body drained), storage holds no entry under the
\* request's key, and the response is the transport's, unchanged.
C8_NonOKLeavesNoEntry ==
  \A i \in 1..Len(bodies) :
    (/\ cacheable(bodies[i].req)
     /\ bodies[i].returned = "resp"
     /\ bodies[i].resp.StatusCode # 200
     /\ bodies[i].eofs > 0)
    => /\ cacheKey(bodies[i].req) \notin DOMAIN items
       /\ bodies[i].resp = bodies[i].rt.resp

\* C9: a failed transport call without a stale fallback (no cached entry,
\* method not GET, or stale-if-error not allowing it) returns the error and
\* no response, and storage then holds no entry under the request's key.
C9_ErrorLeavesNoEntry ==
  (/\ call.active
   /\ call.called
   /\ call.rt.err
   /\ \/ call.found.isNil
      \/ call.req.Method # "GET"
      \/ ~canStaleOnError(call.found.resp.Header, call.req.Header))
  => /\ call.returned = "nil"
     /\ call.err
     /\ cacheKey(call.req) \notin DOMAIN items

\* C10: over any sequence of Reads of a cachingReadCloser, OnEOF has run
\* exactly once as soon as the stream has reported its end, not before, and
\* never a second time.
C10_OnEOFAtMostOnce ==
  \A i \in 1..Len(bodies) :
    bodies[i].wrapped =>
      /\ bodies[i].onEOF <= 1
      /\ bodies[i].eofs = 0 => bodies[i].onEOF = 0
      /\ bodies[i].eofs > 0 => bodies[i].onEOF >= 1

\* the call about to return found a decodable entry under its key
Hit(c) == c.active /\ cacheable(c.req) /\ ~c.found.isNil /\ ~c.found.err

\* the entry lists a header in Vary whose recorded value (X-Varied-<Header>)
\* differs from the request's value for it
VaryDiffers(entry, req) ==
  "Vary" \in DOMAIN entry.Header /\
  \E i \in 1..Len(entry.Header["Vary"]) :
    LET header == CanonicalHeaderKey(TrimSpace(entry.Header["Vary"][i]))
    IN  /\ header # ""
        /\ HeaderGet(req.Header, header) # HeaderGet(entry.Header, "X-Varied-" \o header)

\* the call found a Vary-matching entry that getFreshness judges stale
StaleHit(c) ==
  /\ Hit(c)
  /\ ~VaryDiffers(c.found.resp, c.req)
  /\ getFreshness(c.req, c.found.resp.Header) = "stale"

\* C3: when a Vary-matching stale entry has an ETag and the request sets no
\* If-None-Match, the request handed to the transport carries If-None-Match
\* equal to the cached ETag.
C3_RevalidatesWithETag ==
  (/\ StaleHit(call)
   /\ HeaderGet(call.found.resp.Header, "Etag") # ""
   /\ HeaderGet(call.req.Header, "If-None-Match") = "")
  => /\ call.called
     /\ HeaderGet(call.sent.Header, "If-None-Match")
          = HeaderGet(call.found.resp.Header, "Etag")

\* the hop-by-hop headers of a response: the fixed set and every header name
\* listed in its Connection header
HopByHop(header) ==
  hopByHopHeaders \cup
    {CanonicalHeaderKey(TrimSpace(CommaTokens(header, "Connection", "")[i])) :
       i \in 1..Len(CommaTokens(header, "Connection", ""))}

\* C4: a GET that revalidates a stale entry and is answered 304 returns the
\* cached status and body; every end-to-end header of the 304 has the 304's
\* value, no hop-by-hop header of the 304 is copied, and the cached headers the
\* 304 lacks are kept.
C4_NotModifiedMerge ==
  (/\ StaleHit(call)
   /\ call.req.Method = "GET"
   /\ call.called
   /\ ~call.rt.err
   /\ call.rt.resp.StatusCode = 304)
  => /\ call.returned = "cachedResp"
     /\ call.resp.StatusCode = call.found.resp.StatusCode
     /\ call.resp.Body = call.found.resp.Body
     /\ \A k \in (DOMAIN call.rt.resp.Header) \ HopByHop(call.rt.resp.Header) :
          /\ k \in DOMAIN call.resp.Header
          /\ call.resp.Header[k] = call.rt.resp.Header[k]
     /\ \A k \in (DOMAIN call.rt.resp.Header) \cap HopByHop(call.rt.resp.Header) :
          IF k \in DOMAIN call.found.resp.Header
            THEN /\ k \in DOMAIN call.resp.Header
                 /\ call.resp.Header[k] = call.found.resp.Header[k]
            ELSE k \notin DOMAIN call.resp.Header
     /\ \A k \in (DOMAIN call.found.resp.Header) \ (DOMAIN call.rt.resp.Header) :
          /\ k \in DOMAIN call.resp.Header
          /\ call.resp.Header[k] = call.found.resp.Header[k]

\* C5: an entry whose Vary record differs from the request is never the
\* response executeRequest returns, whatever the transport answers.
C5_VaryMismatchIsMiss ==
  (Hit(call) /\ VaryDiffers(call.found.resp, call.req))
  => call.returned # "cachedResp"

\* the call revalidated a stale GET entry whose response carries
\* stale-if-error=N and a parseable Date, and the transport failed
C6_Case ==
  /\ StaleHit(call)
  /\ call.req.Method = "GET"
  /\ "stale-if-error" \in DOMAIN parseCacheControl(call.found.resp.Header)
  /\ ~ParseDuration(parseCacheControl(call.found.resp.Header)["stale-if-error"]).err
  /\ ~Date(call.found.resp.Header).err
  /\ call.called
  /\ call.rt.err

C6_Age == now - Date(call.found.resp.Header).t

C6_N == ParseDuration(parseCacheControl(call.found.resp.Header)["stale-if-error"]).d

C6_Outcome ==
  IF C6_Age < C6_N
    THEN IsCachedEntry(call)
    ELSE call.returned = "nil" /\ call.err

\* C6 as claimed: a failed revalidation of a stale GET entry with
\* stale-if-error=N returns the entry while its age is below N seconds and the
\* transport error from N seconds on, whatever the request carries.
C6_StaleIfErrorWindow == C6_Case => C6_Outcome

\* C6, amended: the same, for a request that carries no stale-if-error
\* directive of its own.
C6_StaleIfErrorWindowOfResponse ==
  (C6_Case /\ "stale-if-error" \notin DOMAIN parseCacheControl(call.req.Header))
  => C6_Outcome

\* the error is propagated once the window of the entry has elapsed
C6_Witness ==
  /\ C6_Case
  /\ "stale-if-error" \notin DOMAIN parseCacheControl(call.req.Header)
  /\ C6_Age >= C6_N
  /\ C6_N > 0
  /\ call.err

\* the entry is served inside the window, at an age of at least one second
C6_WitnessServed ==
  /\ C6_Case
  /\ "stale-if-error" \notin DOMAIN parseCacheControl(call.req.Header)
  /\ C6_Age < C6_N
  /\ C6_Age >= 1
  /\ call.returned = "cachedResp"

\* C7: a request with only-if-cached and no usable entry (none under its key,
\* an undecodable one, or one whose Vary record differs) gets a 504 and
\* makes no transport call.
C7_OnlyIfCachedMiss ==
  (/\ call.active
   /\ "only-if-cached" \in DOMAIN parseCacheControl(call.req.Header)
   /\ \/ call.found.isNil
      \/ call.found.err
      \/ VaryDiffers(call.found.resp, call.req))
  => /\ ~call.called
     /\ ~call.err
     /\ call.resp.StatusCode = 504

(***************************************************************************)
(* Methods: GET, HEAD and POST exchanges on one URL, entries that allow    *)
(* the stale fallback, answers that fail upstream                          *)
(***************************************************************************)
MethodRequests ==
  { Request("GET", NoHeader),
    Request("GET", "Range" :> "bytes=0-1"),
    Request("HEAD", NoHeader),
    Request("POST", NoHeader),
    Request("GET", CC(<< <<"no-store">> >>)) }

MethodAnswers ==
  { [err |-> TRUE, resp |-> NoResponse],
    [err |-> FALSE, resp |-> Response(200, CC(<< <<"stale-if-error">> >>) @@ Dated, <<"a">>)],
    [err |-> FALSE, resp |-> Response(200, CC(<< <<"no-store">> >>) @@ Dated, <<"d">>)],
    [err |-> FALSE, resp |-> Response(503, NoHeader, <<"e">>)] }

NextMethods ==
  \/ \E req \in MethodRequests, rt \in MethodAnswers : Call(req, rt)
  \/ Do
  \/ \E i \in 1..MaxOpen, n \in 0..2, eof \in BOOLEAN : Read(i, n, eof)
  \/ \E i \in 1..MaxOpen : Close(i)
  \/ Tick
  \/ ForeignSet("/a")

SpecMethods == Init /\ [][NextMethods]_vars

\* C11: the key of a GET and of a HEAD request is the URL alone, so both
\* address the same entry; the key of a request of any other method is the
\* method, a blank and the URL.
C11_KeyOfGetAndHead ==
  call.active =>
    cacheKey(call.req) =
      IF call.req.Method \in {"GET", "HEAD"} THEN call.req.URL
      ELSE call.req.Method \o " " \o call.req.URL

(***************************************************************************)
(* MemoryCache under concurrent callers: every goroutine calls Get, Set or *)
(* Delete, one line of the method per step.  The write of line 22 stores a *)
(* value of several words and is not atomic by itself: it takes two steps. *)
(***************************************************************************)
\* sync.RWMutex: a write lock needs the mutex free, with no reader and no writer
writeLockFreeIgnoringWriter(m) == m.r = {}

writeLockFree(m) == m.w = 0 /\ m.r = {}

\* sync.RWMutex: a read lock needs no writer
readLockFree(m) == m.w = 0

\* a goroutine calls mc.Get(key), mc.Set(key, resp, ttl) or mc.Delete(key)
Go(g, op, key, resp) ==
  /\ call = NoCall /\ bodies = <<>>
  /\ goroutines[g].pc = "idle"
  /\ goroutines' = [goroutines EXCEPT ![g] =
                      [pc |-> IF op = "Get" THEN "RLock" ELSE "Lock",
                       op |-> op, key |-> key,
                       resp |-> IF op = "Set" THEN resp ELSE <<>>,
                       ret |-> Idle.ret]]
  /\ history' = IF op = "Set"
                  THEN [history EXCEPT ![key].passed = @ \cup {resp}]
                  ELSE history
  /\ UNCHANGED <<items, now, Options, call, bodies, mu, eval>>

\* mc.mu.RLock()
RLock(g) ==
  /\ goroutines[g].pc = "RLock"
  /\ readLockFree(mu)
  /\ mu' = [mu EXCEPT !.r = @ \cup {g}]
  /\ goroutines' = [goroutines EXCEPT ![g].pc = "load"]
  /\ UNCHANGED <<items, now, Options, call, bodies, history, eval>>

\* resp, ok = mc.items[key]
GetLoad(g) ==
  /\ goroutines[g].pc = "load"
  /\ goroutines' = [goroutines EXCEPT ![g].pc = "RUnlock",
                                      ![g].ret = [ok |-> Get(items, goroutines[g].key).ok,
                                                  resp |-> IF Get(items, goroutines[g].key).ok
                                                             THEN Get(items, goroutines[g].key).resp
                                                             ELSE <<>>]]
  /\ UNCHANGED <<items, now, Options, call, bodies, mu, history, eval>>

\* mc.mu.RUnlock(); return resp, ok
RUnlock(g) ==
  /\ goroutines[g].pc = "RUnlock"
  /\ mu' = [mu EXCEPT !.r = @ \ {g}]
  /\ goroutines' = [goroutines EXCEPT ![g].pc = "idle"]
  /\ UNCHANGED <<items, now, Options, call, bodies, history, eval>>

\* mc.mu.Lock() of Set and of Delete
Lock(g) ==
  /\ goroutines[g].pc = "Lock"
  /\ writeLockFree(mu)
  /\ mu' = [mu EXCEPT !.w = g]
  /\ goroutines' = [goroutines EXCEPT ![g].pc =
                      IF goroutines[g].op = "Set" THEN "store" ELSE "delete"]
  /\ history' = [history EXCEPT ![goroutines[g].key].last = goroutines[g].op,
                                ![goroutines[g].key].resp = goroutines[g].resp]
  /\ UNCHANGED <<items, now, Options, call, bodies, eval>>

\* mc.items[key] = resp: the first word of the value, then the rest
SetStore(g) ==
  /\ goroutines[g].pc \in {"store", "store2"}
  /\ LET key == goroutines[g].key
         resp == goroutines[g].resp
         old == IF key \in DOMAIN items THEN items[key] ELSE <<"", "">>
     IN  IF goroutines[g].pc = "store"
           THEN /\ items' = Set(items, key, <<resp[1], old[2]>>)
                /\ goroutines' = [goroutines EXCEPT ![g].pc = "store2"]
           ELSE /\ items' = Set(items, key, resp)
                /\ goroutines' = [goroutines EXCEPT ![g].pc = "Unlock"]
  /\ UNCHANGED <<now, Options, call, bodies, mu, history, eval>>

\* delete(mc.items, key)
DeleteKey(g) ==
  /\ goroutines[g].pc = "delete"
  /\ items' = Delete(items, goroutines[g].key)
  /\ goroutines' = [goroutines EXCEPT ![g].pc = "Unlock"]
  /\ UNCHANGED <<now, Options, call, bodies, mu, history, eval>>

\* mc.mu.Unlock() of Set and of Delete
Unlock(g) ==
  /\ goroutines[g].pc = "Unlock"
  /\ mu' = [mu EXCEPT !.w = 0]
  /\ goroutines' = [goroutines EXCEPT ![g].pc = "idle"]
  /\ UNCHANGED <<items, now, Options, call, bodies, history, eval>>

NextMem ==
  \/ \E g \in 1..NumGoroutines, op \in {"Get", "Set", "Delete"},
        key \in MemKeys, resp \in Bytes : Go(g, op, key, resp)
  \/ \E g \in 1..NumGoroutines : RLock(g)
  \/ \E g \in 1..NumGoroutines : GetLoad(g)
  \/ \E g \in 1..NumGoroutines : RUnlock(g)
  \/ \E g \in 1..NumGoroutines : Lock(g)
  \/ \E g \in 1..NumGoroutines : SetStore(g)
  \/ \E g \in 1..NumGoroutines : DeleteKey(g)
  \/ \E g \in 1..NumGoroutines : Unlock(g)

SpecMem == Init /\ [][NextMem]_vars

\* C12: every Get that has returned reports not-found or exactly the bytes
\* passed to one Set on its key, and while no call holds the write lock the
\* value under a key is the one of the Set that took the lock last (no value
\* when a Delete took it last).
C12_MemoryCacheAtomic ==
  /\ \A g \in 1..NumGoroutines :
       (goroutines[g].op = "Get" /\ goroutines[g].pc \in {"RUnlock", "idle"}
        /\ goroutines[g].ret.ok)
       => goroutines[g].ret.resp \in history[goroutines[g].key].passed
  /\ mu.w = 0 =>
       \A key \in MemKeys :
         /\ history[key].last = "Set"
              => key \in DOMAIN items /\ items[key] = history[key].resp
         /\ history[key].last = "Delete" => key \notin DOMAIN items

\* two Sets of different values raced for one key, a Get running beside the
\* second one returned its bytes
C12_Witness ==
  \E g \in 1..NumGoroutines, h \in 1..NumGoroutines :
    /\ g # h
    /\ goroutines[g].op = "Get" /\ goroutines[g].pc = "idle" /\ goroutines[g].ret.ok
    /\ goroutines[h].op = "Set" /\ goroutines[h].key = goroutines[g].key
    /\ goroutines[h].pc = "idle"
    /\ Cardinality(history[goroutines[g].key].passed) = 2
    /\ goroutines[g].ret.resp = goroutines[h].resp

(***************************************************************************)
(* The helper functions on their own: one evaluation of a helper on        *)
(* arguments drawn from bounded sets, at any time of the clock             *)
(***************************************************************************)
\* the tokens of a directive that is absent ("-"), present without value ("")
\* or present with the value v
Directive(name, v) ==
  IF v = "-" THEN <<>> ELSE IF v = "" THEN << <<name>> >> ELSE << <<name, v>> >>

\* a header holding the Cache-Control text of the tokens, none when there are none
CacheControlHeader(tokens) == IF tokens = <<>> THEN NoHeader ELSE CC(tokens)

\* a header holding the text v under name, none when v is absent ("-")
TextHeader(name, v) == IF v = "-" THEN NoHeader ELSE name :> v

\* the arguments of getFreshness: the directives of the request, the
\* directives and the Expires and Date headers of the cached response
FreshnessArgs ==
  [fn : {"getFreshness"},
   reqNoCache : {"-", ""}, reqOnlyIfCached : {"-", ""},
   reqMaxAge : {"-", "1", "x"}, reqMinFresh : {"-", "1", "x"},
   reqMaxStale : {"-", "", "1", "x"},
   respNoCache : {"-", ""}, respMaxAge : {"-", "2", "x"},
   expires : {"-", "t1", "bad"}, date : {"-", "t0", "bad"},
   done : {FALSE}, at : {0}, out : {"none"}]

FreshnessRequest(a) ==
  Request("GET", CacheControlHeader(
    Directive("no-cache", a.reqNoCache) \o Directive("only-if-cached", a.reqOnlyIfCached)
      \o Directive("max-age", a.reqMaxAge) \o Directive("min-fresh", a.reqMinFresh)
      \o Directive("max-stale", a.reqMaxStale)))

FreshnessResponseHeader(a) ==
  CacheControlHeader(Directive("no-cache", a.respNoCache)
                       \o Directive("max-age", a.respMaxAge))
    @@ TextHeader("Expires", a.expires) @@ TextHeader("Date", a.date)

\* cc.getFreshness(req, respHeaders) is evaluated
EvalGetFreshness ==
  /\ eval.fn = "getFreshness"
  /\ ~eval.done
  /\ eval' = [eval EXCEPT !.done = TRUE, !.at = now,
                          !.out = getFreshness(FreshnessRequest(eval),
                                               FreshnessResponseHeader(eval))]
  /\ UNCHANGED <<items, now, Options, call, bodies, mu, goroutines, history>>

\* the seconds a directive value denotes, none for a malformed value
Seconds(v) == IF v = "1" THEN 1 ELSE IF v = "2" THEN 2 ELSE 0

\* the seconds of a time text of the arguments
Instant(v) == IF v = "t1" THEN 1 ELSE 0

\* the lifetime of the rules of C13
C13_Lifetime(a) ==
  IF a.reqMaxAge # "-" THEN Seconds(a.reqMaxAge)
  ELSE IF a.respMaxAge # "-" THEN Seconds(a.respMaxAge)
  ELSE IF a.expires \notin {"-", "bad"} THEN Instant(a.expires) - Instant(a.date)
  ELSE 0

\* the current age of the rules of C13
C13_CurrentAge(a) ==
  (a.at - Instant(a.date)) + Seconds(a.reqMinFresh)
    - (IF a.reqMaxStale = "-" THEN 0 ELSE Seconds(a.reqMaxStale))

\* the first matching rule of C13
C13_Rules(a) ==
  IF a.reqNoCache # "-" THEN "transparent"
  ELSE IF a.respNoCache # "-" THEN "stale"
  ELSE IF a.reqOnlyIfCached # "-" THEN "fresh"
  ELSE IF a.date \in {"-", "bad"} THEN "stale"
  ELSE IF a.reqMaxStale = "" THEN "fresh"
  ELSE IF C13_Lifetime(a) > C13_CurrentAge(a) THEN "fresh"
  ELSE "stale"

\* C13: getFreshness returns the result of the first matching rule: request
\* no-cache, transparent; response no-cache, stale; request only-if-cached,
\* fresh; no parseable Date, stale; max-stale without value, fresh; else fresh
\* exactly if the lifetime (request max-age, else response max-age, else
\* Expires minus Date, else 0; malformed 0) exceeds the age plus min-fresh
\* minus max-stale.
C13_FreshnessRules ==
  (eval.fn = "getFreshness" /\ eval.done) => eval.out = C13_Rules(eval)

\* the last rule decides, with min-fresh and max-stale adjusting the age of an
\* entry that is at least one second old
C13_Witness ==
  /\ eval.fn = "getFreshness" /\ eval.done
  /\ eval.reqNoCache = "-" /\ eval.respNoCache = "-" /\ eval.reqOnlyIfCached = "-"
  /\ eval.date = "t0" /\ eval.reqMaxAge = "-" /\ eval.respMaxAge = "2"
  /\ eval.expires = "t1"
  /\ eval.reqMinFresh = "1" /\ eval.reqMaxStale = "1"
  /\ eval.at >= 1
  /\ eval.out = "fresh"

\* the arguments of canStaleOnError: the stale-if-error directive of the
\* response and of the request, the Date header of the response
StaleArgs ==
  [fn : {"canStaleOnError"},
   respStaleIfError : {"-", "", "1", "x"}, reqStaleIfError : {"-", "", "1", "x"},
   date : {"-", "t0", "bad"},
   done : {FALSE}, at : {0}, out : {FALSE}]

\* canStaleOnError(respHeaders, reqHeaders) is evaluated
EvalCanStaleOnError ==
  /\ eval.fn = "canStaleOnError"
  /\ ~eval.done
  /\ eval' = [eval EXCEPT !.done = TRUE, !.at = now,
                          !.out = canStaleOnError(
                            CacheControlHeader(Directive("stale-if-error", eval.respStaleIfError))
                              @@ TextHeader("Date", eval.date),
                            CacheControlHeader(Directive("stale-if-error", eval.reqStaleIfError)))]
  /\ UNCHANGED <<items, now, Options, call, bodies, mu, goroutines, history>>

Tokens ==
  { <<"">>, <<"no-store">>, <<"max-age", "1">>, <<"max-age", "2">>,
    <<"a", "">>, <<"a", "b", "c">> }

\* the arguments of parseCacheControl: headers whose Cache-Control text has
\* up to MaxTokens tokens
ParseArgs ==
  [fn : {"parseCacheControl"},
   tokens : UNION {[1..n -> Tokens] : n \in 1..MaxTokens},
   done : {FALSE}, at : {0}, out : {<<>>}]

\* parseCacheControl(headers) is evaluated
EvalParseCacheControl ==
  /\ eval.fn = "parseCacheControl"
  /\ ~eval.done
  /\ eval' = [eval EXCEPT !.done = TRUE, !.at = now,
                          !.out = parseCacheControl(CC(eval.tokens))]
  /\ UNCHANGED <<items, now, Options, call, bodies, mu, goroutines, history>>

\* the text of the pieces joined by "="
RECURSIVE JoinEquals(_)
JoinEquals(pieces) ==
  IF Len(pieces) = 0 THEN ""
  ELSE IF Len(pieces) = 1 THEN pieces[1]
  ELSE pieces[1] \o "=" \o JoinEquals(Tail(pieces))

\* C19: parseCacheControl maps the name before the first "=" of a token to
\* all the text after it, further "=" included (a=b=c gives b=c), a token
\* without "=" to the empty value, ignores empty tokens and keeps the last
\* value of a repeated directive.
C19_SplitOnFirstEquals ==
  (eval.fn = "parseCacheControl" /\ eval.done) =>
    LET kept == {i \in 1..Len(eval.tokens) : eval.tokens[i] # <<"">>}
    IN  /\ DOMAIN eval.out = {eval.tokens[i][1] : i \in kept}
        /\ \A i \in kept :
             (\A j \in kept : j > i => eval.tokens[j][1] # eval.tokens[i][1])
             => eval.out[eval.tokens[i][1]] = JoinEquals(Tail(eval.tokens[i]))

\* the arguments of getEndToEndHeaders: response headers with any of X-Foo,
\* Keep-Alive and Etag, and a Connection header that is absent or lists
\* header names, with and without blanks after the commas
EndToEndArgs ==
  [fn : {"getEndToEndHeaders"},
   connection : {<<>>, <<"close">>, <<"X-Foo">>, <<"x-foo", "close">>,
                 <<"close", " X-Foo">>, <<"close", " ">>},
   others : SUBSET {"X-Foo", "Keep-Alive", "Etag"},
   done : {FALSE}, at : {0}, out : {{}}]

EndToEndResponseHeader(a) ==
  [k \in a.others |-> "v"]
    @@ (IF a.connection = <<>> THEN NoHeader ELSE "Connection" :> a.connection)

\* getEndToEndHeaders(respHeaders) is evaluated
EvalGetEndToEndHeaders ==
  /\ eval.fn = "getEndToEndHeaders"
  /\ ~eval.done
  /\ eval' = [eval EXCEPT !.done = TRUE, !.at = now,
                          !.out = getEndToEndHeaders(EndToEndResponseHeader(eval))]
  /\ UNCHANGED <<items, now, Options, call, bodies, mu, goroutines, history>>

\* C20: getEndToEndHeaders returns exactly the header names of the response
\* that are neither in the fixed hop-by-hop set nor listed in Connection,
\* wherever in the list and with whatever blanks around them.
C20_EndToEndHeaders ==
  (eval.fn = "getEndToEndHeaders" /\ eval.done) =>
    eval.out = (DOMAIN EndToEndResponseHeader(eval))
                 \ HopByHop(EndToEndResponseHeader(eval))

\* the helper evaluations start from any arguments
InitHelpers ==
  /\ items = NewMemoryCache
  /\ now = 0
  /\ Options = [MarkCachedResponses |-> FALSE]
  /\ call = NoCall
  /\ bodies = <<>>
  /\ mu = Unlocked
  /\ goroutines = [g \in 1..NumGoroutines |-> Idle]
  /\ history = [key \in MemKeys |-> [last |-> "none", resp |-> <<>>, passed |-> {}]]
  /\ eval \in FreshnessArgs \cup StaleArgs \cup ParseArgs \cup EndToEndArgs

NextHelpers ==
  \/ EvalGetFreshness
  \/ EvalCanStaleOnError
  \/ EvalParseCacheControl
  \/ EvalGetEndToEndHeaders
  \/ Tick

SpecHelpers == InitHelpers /\ [][NextHelpers]_vars

(***************************************************************************)
(* no-cache: requests that bypass the cache, against entries that allow    *)
(* the stale fallback                                                      *)
(***************************************************************************)
NoCacheRequests ==
  { Request("GET", NoHeader),
    Request("GET", CC(<< <<"no-cache">> >>)) }

NoCacheAnswers ==
  { [err |-> TRUE, resp |-> NoResponse],
    [err |-> FALSE,
     resp |-> Response(200, CC(<< <<"stale-if-error">> >>) @@ ("Etag" :> "v1") @@ Dated,
                       <<"a">>)],
    [err |-> FALSE, resp |-> Response(304, NoHeader, <<>>)],
    [err |-> FALSE, resp |-> Response(503, NoHeader, <<"e">>)] }

NextNoCache ==
  \/ \E req \in NoCacheRequests, rt \in NoCacheAnswers : Call(req, rt)
  \/ Do
  \/ \E i \in 1..MaxOpen, n \in 0..2, eof \in BOOLEAN : Read(i, n, eof)
  \/ \E i \in 1..MaxOpen : Close(i)
  \/ Tick
  \/ ForeignSet("/a")

SpecNoCache == Init /\ [][NextNoCache]_vars

\* C14: a request that carries no-cache is never answered with the cached
\* entry, whatever the transport does (304, error, 5xx with stale-if-error).
C14_NoCacheBypassesEntry ==
  (Hit(call) /\ "no-cache" \in DOMAIN parseCacheControl(call.req.Header))
  => call.returned # "cachedResp"

\* C15: revalidating a stale entry never overwrites a validator of the
\* caller: an If-None-Match or If-Modified-Since the request sets reaches the
\* transport with the caller's value, and the request is sent as it is when
\* no validator has to be added.
C15_CallerValidatorsKept ==
  (StaleHit(call) /\ call.called) =>
    /\ HeaderGet(call.req.Header, "If-None-Match") # ""
         => HeaderGet(call.sent.Header, "If-None-Match")
              = HeaderGet(call.req.Header, "If-None-Match")
    /\ HeaderGet(call.req.Header, "If-Modified-Since") # ""
         => HeaderGet(call.sent.Header, "If-Modified-Since")
              = HeaderGet(call.req.Header, "If-Modified-Since")
    /\ (/\ \/ HeaderGet(call.found.resp.Header, "Etag") = ""
           \/ HeaderGet(call.req.Header, "If-None-Match") # ""
        /\ \/ HeaderGet(call.found.resp.Header, "Last-Modified") = ""
           \/ HeaderGet(call.req.Header, "If-Modified-Since") # "")
         => call.sent = call.req

\* the call found an entry and its round trip failed upstream: an error or a
\* reply of status 500 or more
UpstreamFailure(c) ==
  /\ Hit(c)
  /\ c.called
  /\ c.rt.err \/ c.rt.resp.StatusCode >= 500

\* C16: a GET that finds an entry and is answered 5xx while canStaleOnError
\* allows the entry returns the entry, not the 5xx reply, and leaves the stored
\* entry as it was; a HEAD whose round trip fails or is answered 5xx never
\* returns the cached entry.
C16_StaleFallbackGetOnly ==
  /\ (/\ UpstreamFailure(call)
      /\ call.req.Method = "GET"
      /\ ~call.rt.err
      /\ canStaleOnError(call.found.resp.Header, call.req.Header))
     => /\ IsCachedEntry(call)
        /\ cacheKey(call.req) \in DOMAIN items
        /\ ~ReadResponse(items[cacheKey(call.req)], call.req).err
        /\ ReadResponse(items[cacheKey(call.req)], call.req).resp = call.found.resp
  /\ (UpstreamFailure(call) /\ call.req.Method = "HEAD")
     => call.returned # "cachedResp"

\* a GET answered 503 gets the cached entry
C16_Witness ==
  /\ UpstreamFailure(call)
  /\ call.req.Method = "GET"
  /\ ~call.rt.err
  /\ call.rt.resp.StatusCode = 503
  /\ canStaleOnError(call.found.resp.Header, call.req.Header)
  /\ call.returned = "cachedResp"

\* a HEAD that found an entry allowing the fallback gets the failure
C16_WitnessHead ==
  /\ UpstreamFailure(call)
  /\ call.req.Method = "HEAD"
  /\ canStaleOnError(call.found.resp.Header, call.req.Header)
  /\ call.returned # "cachedResp"

\* the gate of the store: GET or HEAD, no Range header, no no-store in the
\* Cache-Control of the request nor of the response
PassesGate(req, resp) ==
  /\ req.Method \in {"GET", "HEAD"}
  /\ "Range" \notin DOMAIN req.Header
  /\ \A i \in 1..Len(CommaTokens(req.Header, "Cache-Control", <<"">>)) :
       CommaTokens(req.Header, "Cache-Control", <<"">>)[i][1] # "no-store"
  /\ \A i \in 1..Len(CommaTokens(resp.Header, "Cache-Control", <<"">>)) :
       CommaTokens(resp.Header, "Cache-Control", <<"">>)[i][1] # "no-store"

\* C18: Cache.Set is invoked only through the gate: a call that stores at
\* once or installs the deferred store, and a body whose end-of-stream store
\* is pending or done, belong to a GET or HEAD exchange without Range and
\* without no-store on the request and on the response; no other exchange
\* stores at once or at end-of-stream.
C18_SetOnlyThroughGate ==
  /\ (call.active /\ (call.set \/ call.wrapped)) => PassesGate(call.req, call.resp)
  /\ \A i \in 1..Len(bodies) :
       (bodies[i].wrapped \/ bodies[i].onEOF > 0)
         => PassesGate(bodies[i].req, bodies[i].resp)

\* a GET through the gate has stored its response at end-of-stream
C18_Witness ==
  \E i \in 1..Len(bodies) :
    /\ bodies[i].onEOF > 0
    /\ PassesGate(bodies[i].req, bodies[i].resp)
    /\ cacheKey(bodies[i].req) \in DOMAIN items

\* a HEAD through the gate has stored its response at once
C18_WitnessHead ==
  /\ call.active /\ call.set
  /\ call.req.Method = "HEAD"
  /\ cacheKey(call.req) \in DOMAIN items

\* an exchange outside the gate has stored nothing
C18_WitnessOutside ==
  /\ call.active /\ ~call.err /\ call.called
  /\ ~PassesGate(call.req, call.resp)
  /\ ~call.set /\ ~call.wrapped

(***************************************************************************)
(* Deferred store against eviction: exchanges on one key whose bodies are  *)
(* open at the same time                                                   *)
(***************************************************************************)
RaceRequests ==
  { Request("GET", NoHeader),
    Request("GET", CC(<< <<"no-store">> >>)) }

RaceAnswers ==
  { [err |-> TRUE, resp |-> NoResponse],
    [err |-> FALSE, resp |-> Response(200, CC(<< <<"max-age", "2">> >>) @@ Dated, <<"a", "b">>)] }

NextRace ==
  \/ \E req \in RaceRequests, rt \in RaceAnswers : CallConcurrent(req, rt)
  \/ Do
  \/ \E i \in 1..MaxRace, n \in 0..2, eof \in BOOLEAN : Read(i, n, eof)
  \/ \E i \in 1..MaxRace : Close(i)

SpecRace == Init /\ [][NextRace]_vars

\* the exchange of held body b evicts its key: its request is not cacheable
\* or the exchange carries no-store
Evicts(b) ==
  \/ ~cacheable(b.req)
  \/ "no-store" \in DOMAIN parseCacheControl(b.req.Header)
  \/ "no-store" \in DOMAIN parseCacheControl(b.resp.Header)

\* the step stores the response of held body i: its OnEOF runs
StoresBody(i) ==
  /\ i \in 1..Len(bodies)
  /\ Len(bodies') = Len(bodies)
  /\ bodies'[i].onEOF > bodies[i].onEOF

\* the deferred store of a GET response happens in a Read that reports the
\* end of the stream and in no other step: not in the call, not in a Read
\* that yields bytes only, not in Close
DeferredStoreOnlyAtEOF ==
  /\ \A i \in 1..Len(bodies) :
       StoresBody(i) => bodies'[i].eofs > bodies[i].eofs
  /\ (call'.active /\ ~call.active /\ call'.req.Method = "GET") =>
       /\ ~call'.set
       /\ items' = items \/ items' = Delete(items, cacheKey(call'.req))
  /\ Len(bodies') < Len(bodies) => items' = items
  /\ \A i \in 1..Len(bodies) :
       (Len(bodies') = Len(bodies) /\ bodies'[i].pos > bodies[i].pos
        /\ bodies'[i].eofs = bodies[i].eofs) => items' = items

\* once an exchange that started later has evicted the key and completed,
\* no step stores the response of an exchange that started earlier
NoStoreAfterLaterEviction ==
  \A i \in 1..Len(bodies), j \in 1..Len(bodies) :
    (/\ i < j
     /\ cacheKey(bodies[i].req) = cacheKey(bodies[j].req)
     /\ Evicts(bodies[j])
     /\ bodies[j].eofs > 0)
    => ~StoresBody(i)

\* C21 as claimed: the store of a GET response happens only when its body is
\* drained to end-of-stream, and after a later exchange has evicted the key
\* and completed, no response of an earlier exchange is stored under the key.
C21_DeferredStoreYieldsToEviction ==
  [][DeferredStoreOnlyAtEOF /\ NoStoreAfterLaterEviction]_vars

\* C21, amended: the store of a GET response happens only when its body is
\* drained to end-of-stream, and it then happens whatever later exchanges did
\* to the key: the drained response is the entry under the key.
C21_DeferredStoreAtEOF ==
  [][/\ DeferredStoreOnlyAtEOF
     /\ \A i \in 1..Len(bodies) :
          (/\ Len(bodies') = Len(bodies)
           /\ bodies[i].wrapped
           /\ bodies'[i].eofs > bodies[i].eofs)
          => /\ StoresBody(i)
             /\ cacheKey(bodies[i].req) \in DOMAIN items'
             /\ items'[cacheKey(bodies[i].req)] = DumpResponse(bodies[i].resp)]_vars

\* the response of an earlier exchange is the entry under the key although a
\* later exchange, now complete, had evicted the key
C21_Witness ==
  \E i \in 1..Len(bodies), j \in 1..Len(bodies) :
    /\ i < j
    /\ bodies[i].wrapped /\ bodies[i].onEOF > 0
    /\ Evicts(bodies[j]) /\ bodies[j].eofs > 0
    /\ cacheKey(bodies[i].req) = cacheKey(bodies[j].req)
    /\ cacheKey(bodies[i].req) \in DOMAIN items
    /\ items[cacheKey(bodies[i].req)] = DumpResponse(bodies[i].resp)

\* C22: the 504 made up for an only-if-cached request is never stored: once
\* such an exchange is over (body drained) the entry under its key is not
\* that 504, and no later call finds a 504 under its key.
C22_TimeoutNeverStored ==
  /\ \A i \in 1..Len(bodies) :
       (bodies[i].returned = "timeout" /\ bodies[i].eofs > 0)
       => \/ cacheKey(bodies[i].req) \notin DOMAIN items
          \/ items[cacheKey(bodies[i].req)] # DumpResponse(bodies[i].resp)
  /\ Hit(call) => call.found.resp.StatusCode # 504

====
